---- MODULE Spec2Model ----
(***************************************************************************)
(* A model of inference.py: the layer classes (Convolution, Pooling,       *)
(* Activation, Dropout, Linear, SoftMax) and the Model graph with its      *)
(* configure / evaluate protocol.                                          *)
(*                                                                         *)
(* Python attributes are integers: Absent (the attribute was never set),   *)
(* None, or the identity (index) of a tensor, descriptor or allocation.    *)
(* Tensor elements are single-precision floats in the program; here they   *)
(* are integers in units of 1/One, so that the halving done by Dropout is  *)
(* exact for every run the bounds allow.                                   *)
(***************************************************************************)
EXTENDS Integers, Sequences, FiniteSets, TLC

VARIABLES
  layers,    \* Model.layers: each layer's kind and static parameters
  lstate,    \* each layer's shape-dependent attributes (output, descriptors, ...)
  minput,    \* Model.input
  tensors,   \* the GPUTensor objects, by identity
  descs,     \* the cudnn descriptors created so far, by identity
  wsbufs,    \* the device allocations made by drv.mem_alloc, by identity
  call,      \* the last Model call: what it was given and how it ended
  lcalls,    \* each layer's last configure call (for the claims)
  hist,      \* what the earlier Model calls were (for the claims)
  sz,        \* one axis of a sliding layer's output-size computation
  build      \* one construction of a Model: the file and what came of it

vars ==
  <<layers, lstate, minput, tensors, descs, wsbufs, call, lcalls, hist, sz, build>>

----------------------------------------------------------------------------
(* Bounds *)

MaxLayers == 2
MaxCalls == 3
MaxIn == 5
MaxKernel == 4
MaxPad == 2
MaxStride == 3
MaxRecords == 3

(* 1.0 in the units of the model: every fprop of a run can halve once. *)
One == 2 ^ ((MaxLayers + 1) * (MaxCalls + 1))

----------------------------------------------------------------------------
(* Python values *)

Absent == -1
None == 0

(* Python's booleans are the integers 0 and 1: False == 0 is true. *)
False == 0
True == 1

RECURSIVE Prod(_)
Prod(s) == IF s = <<>> THEN 1 ELSE Head(s) * Prod(Tail(s))

RECURSIVE SumTo(_, _)
(* f[1] + ... + f[n] *)
SumTo(f, n) == IF n = 0 THEN 0 ELSE f[n] + SumTo(f, n - 1)

RECURSIVE MaxOf(_)
MaxOf(S) == LET x == CHOOSE y \in S : TRUE
            IN IF S = {x} THEN x
               ELSE LET m == MaxOf(S \ {x}) IN IF x > m THEN x ELSE m

(* Python's int() of the exact quotient a / b, b > 0: truncation toward 0. *)
TruncDiv(a, b) == IF a >= 0 THEN a \div b ELSE -((-a) \div b)

----------------------------------------------------------------------------
(* Output sizes of the sliding layers, one spatial axis *)

(* int((1.0 * in + 2*pad - k) / d + 1) *)
ConvOutSize(in, k, pad, d) == TruncDiv((in + 2 * pad - k) + d, d)

PoolOutSizeCeil(in, k, pad, d) == TruncDiv((in - k + 2 * pad) + d + (d - 1), d)

(* int((math.floor(1.0 * in - k + 2*pad) / d) + 1) *)
PoolOutSize(in, k, pad, d) == TruncDiv((in - k + 2 * pad) + d, d)

----------------------------------------------------------------------------
(* Tensors *)

Size(shape) == Prod(shape)

(* GPUTensor(host array): a device tensor holding the given data. *)
TensorOf(shape, data) == [shape |-> shape, data |-> data, init |-> TRUE]

(* GPUTensor(shape): device memory is allocated and not written. *)
TensorAlloc(shape) ==
  [shape |-> shape, data |-> [i \in 1..Size(shape) |-> 0], init |-> FALSE]

NoTensor == [shape |-> <<>>, data |-> <<>>, init |-> FALSE]

Fill(n, v) == [i \in 1..n |-> v]

----------------------------------------------------------------------------
(* The model description file: its layer records *)

NoFields ==
  [kW |-> 0, kH |-> 0, dW |-> 0, dH |-> 0, padW |-> 0, padH |-> 0,
   ceil_mode |-> Absent, pNum |-> 0, pDen |-> 1, W |-> NoTensor, bias |-> NoTensor]

Rec(type) == [type |-> type] @@ NoFields

SlidingRec(type, k, d, pad) ==
  [type |-> type, kW |-> k, kH |-> k, dW |-> d, dH |-> d, padW |-> pad, padH |-> pad]
    @@ NoFields

(* A pooling record with its "ceil_mode" key. *)
PoolRec(k, d, pad, ceil) ==
  [ceil_mode |-> ceil] @@ SlidingRec("SpatialMaxPooling", k, d, pad)

(* A convolution record and its two parameter files: the weights
   (filter_maps x filter_channels x kH x kW) and the bias. *)
ConvRec(k, d, pad, maps, chans, wdata) ==
  [type |-> "SpatialConvolution", kW |-> k, kH |-> k, dW |-> d, dH |-> d,
   padW |-> pad, padH |-> pad,
   W |-> TensorOf(<<maps, chans, k, k>>, wdata),
   bias |-> TensorOf(<<maps>>, Fill(maps, One))] @@ NoFields

(* A linear record and its two parameter files: the weights
   (outFeatures x inFeatures, row-major) and the bias. *)
LinearRec(outF, inF, wdata) ==
  [type |-> "Linear", W |-> TensorOf(<<outF, inF>>, wdata),
   bias |-> TensorOf(<<outF>>, Fill(outF, One))] @@ NoFields

DropoutRec(num, den) == [type |-> "Dropout", pNum |-> num, pDen |-> den] @@ NoFields

LayerRecords ==
  { ConvRec(2, 1, 0, 1, 1, <<1, 0, 2, 1>>),
    ConvRec(1, 1, 0, 2, 2, <<1, 1, 0, -1>>),
    PoolRec(2, 2, 0, False),
    Rec("ReLU"),
    DropoutRec(1, 2),
    LinearRec(2, 4, <<1, 0, -1, 2, 0, 1, 1, 0>>),
    Rec("LogSoftMax") }

RECURSIVE SeqsUpTo(_, _)
(* The sequences over S of length at most n. *)
SeqsUpTo(S, n) ==
  IF n = 0 THEN {<<>>}
  ELSE LET shorter == SeqsUpTo(S, n - 1)
       IN shorter \cup {Append(q, x) : q \in shorter, x \in S}

ModelFiles == SeqsUpTo(LayerRecords, MaxLayers)

----------------------------------------------------------------------------
(* Construction: Model.__init__ and the layers' __init__ *)

NoAttrs ==
  [output |-> Absent, in_desc |-> Absent, out_desc |-> Absent, filt_desc |-> Absent,
   conv_desc |-> Absent, pool_desc |-> Absent, inout_desc |-> Absent,
   ws_ptr |-> Absent, ws_size |-> Absent, algo |-> Absent]

(* A layer object: the record's fields, the class and what __init__ chose. *)
LayerObj(kind, sel, rec) == [kind |-> kind, sel |-> sel] @@ rec

(* What a constructor call comes to: the object, or the exception; ntensors
   counts the GPUTensor objects the call made. *)
Constructed(L, nt) == [raised |-> FALSE, error |-> "", layer |-> L, ntensors |-> nt]
Failed(err, nt) == [raised |-> TRUE, error |-> err, layer |-> <<>>, ntensors |-> nt]

(* The ceil_mode assertion left out of Pooling.__init__. *)
PoolingInitAccepting(mode, config) ==
  IF config.ceil_mode = Absent THEN Failed("KeyError", 0)
  ELSE Constructed(LayerObj("Pooling", mode, config), 0)

(* Pooling.__init__: config["ceil_mode"] is looked up, and asserted False. *)
PoolingInit(mode, config) ==
  IF config.ceil_mode = Absent THEN Failed("KeyError", 0)             \* line 180
  ELSE IF config.ceil_mode # False THEN Failed("AssertionError", 0)   \* line 180
  ELSE Constructed(LayerObj("Pooling", mode, config), 0)

(* Activation.__init__ and SoftMax.__init__: the selector is stored. *)
ActivationInit(function, rec) == LayerObj("Activation", function, rec)
SoftMaxInit(mode, rec) == LayerObj("SoftMax", mode, rec)

instantiate_layer(rec) ==
  CASE rec.type = "SpatialConvolution" -> Constructed(LayerObj("Convolution", "", rec), 2)
    [] rec.type = "ReLU" -> Constructed(ActivationInit("ReLU", rec), 0)
    [] rec.type = "Threshold" -> Constructed(ActivationInit("ReLU", rec), 0)
    [] rec.type = "SpatialMaxPooling" -> PoolingInit("MAX", rec)
    [] rec.type = "Dropout" -> Constructed(LayerObj("Dropout", "", rec), 0)
    [] rec.type = "Linear" -> Constructed(LayerObj("Linear", "", rec), 2)
    [] rec.type = "LogSoftMax" -> Constructed(SoftMaxInit("LOG", rec), 0)
    [] OTHER -> Failed("RuntimeError", 0)                             \* line 379

(* The attributes each __init__ sets: Convolution sets output and its four
   descriptors to None, Pooling its three descriptors; the others set none. *)
LayerInit(L) ==
  CASE L.kind = "Convolution" ->
         [NoAttrs EXCEPT !.output = None, !.in_desc = None, !.out_desc = None,
                         !.filt_desc = None, !.conv_desc = None]
    [] L.kind = "Pooling" ->
         [NoAttrs EXCEPT !.pool_desc = None, !.in_desc = None, !.out_desc = None]
    [] OTHER -> NoAttrs

(* Model.__init__, lines 353-357, from record j on: the records in file order,
   "View" records left out; a constructor's exception ends it, and there is no
   Model.  m is what was built so far; at is the record whose constructor
   raised, before the number of GPUTensor objects made when it was called. *)
RECURSIVE ModelInitFrom(_, _, _)
ModelInitFrom(file, j, m) ==
  IF j > Len(file)
    THEN [raised |-> FALSE, error |-> "", at |-> 0, layers |-> m.layers,
          ntensors |-> m.ntensors, before |-> m.ntensors]
  ELSE IF file[j].type = "View" THEN ModelInitFrom(file, j + 1, m)
  ELSE LET r == instantiate_layer(file[j])
       IN IF r.raised
            THEN [raised |-> TRUE, error |-> r.error, at |-> j, layers |-> <<>>,
                  ntensors |-> m.ntensors + r.ntensors, before |-> m.ntensors]
            ELSE ModelInitFrom(file, j + 1,
                               [layers |-> Append(m.layers, r.layer),
                                ntensors |-> m.ntensors + r.ntensors])

(* An unsupported record passed over like a "View" record. *)
ModelInitSkipping(file) ==
  LET known == SelectSeq(file, LAMBDA rec : ~(instantiate_layer(rec).error = "RuntimeError"))
  IN ModelInitFrom(known, 1, [layers |-> <<>>, ntensors |-> 0])

ModelInit(file) == ModelInitFrom(file, 1, [layers |-> <<>>, ntensors |-> 0])

----------------------------------------------------------------------------
(* The backend's descriptors and device allocations *)

NewDesc(ds, kind, dims, owner) ==
  Append(ds, [kind |-> kind, dims |-> dims, destroyed |-> 0, owner |-> owner])

(* cudnnDestroy...Descriptor under `if self.x_desc:` *)
DestroyIfSet(ds, d) == IF d > 0 THEN [ds EXCEPT ![d].destroyed = @ + 1] ELSE ds

(* GPUTensor.get_cudnn_tensor_desc: a tensor descriptor of the tensor's shape,
   created for the caller, which owns it. *)
get_cudnn_tensor_desc(ds, shape, owner) == NewDesc(ds, "tensor", shape, owner)

(* Rebinding self.ws_ptr drops the last reference to the old allocation,
   which frees it. *)
ReleaseWs(bufs, p) == IF p > 0 THEN [bufs EXCEPT ![p].live = FALSE] ELSE bufs

(* drv.mem_alloc *)
MemAlloc(bufs, owner) == Append(bufs, [live |-> TRUE, owner |-> owner])

----------------------------------------------------------------------------
(* configure of each layer class.  w is the world: the layers' attributes
   (ls), the tensors, the descriptors, the allocations; i the layer's index,
   inp the identity of the input tensor, wsz the workspace size the backend
   reports.  The result says whether the call raised. *)

Raised(w) == [w |-> w, raised |-> TRUE]
Returned(w) == [w |-> w, raised |-> FALSE]

(* Convolution.configure from line 96 on: the output size, the output tensor,
   the descriptors, the algorithm and its workspace. *)
ConvolutionConfigured(w, i, inp, wsz) ==
  LET L == layers[i]
      S == w.ls[i]
      shape == w.tensors[inp].shape
      in_images == shape[1]
      in_height == shape[3]
      in_width == shape[4]
      filter_maps == L.W.shape[1]
      filter_channels == L.W.shape[2]
      out_width == ConvOutSize(in_width, L.kW, L.padW, L.dW)
      out_height == ConvOutSize(in_height, L.kH, L.padH, L.dH)
      oshape == <<in_images, filter_maps, out_height, out_width>>
      out == Len(w.tensors) + 1
      d0 == DestroyIfSet(DestroyIfSet(DestroyIfSet(DestroyIfSet(
              w.descs, S.in_desc), S.out_desc), S.filt_desc), S.conv_desc)
      n == Len(d0)
      d1 == get_cudnn_tensor_desc(d0, shape, i)
      d2 == NewDesc(d1, "filter", <<filter_maps, filter_channels, L.kH, L.kW>>, i)
      d3 == NewDesc(d2, "conv", <<L.padH, L.padW, L.dH, L.dW>>, i)
      d4 == get_cudnn_tensor_desc(d3, oshape, i)
      (* lines 99-124 done *)
      w3 == [w EXCEPT !.tensors = Append(@, TensorAlloc(oshape)),
                      !.descs = d3,
                      !.ls[i] = [S EXCEPT !.output = out, !.in_desc = n + 1,
                                          !.filt_desc = n + 2, !.conv_desc = n + 3]]
      w4 == [w3 EXCEPT !.descs = d4,
                       !.wsbufs = IF wsz > 0 THEN MemAlloc(ReleaseWs(@, S.ws_ptr), i)
                                  ELSE ReleaseWs(@, S.ws_ptr),
                       !.ls[i] = [@ EXCEPT !.out_desc = n + 4, !.algo = 1,
                                           !.ws_size = wsz,
                                           !.ws_ptr = IF wsz > 0 THEN Len(w.wsbufs) + 1
                                                      ELSE 0]]
  IN IF out_width < 0 \/ out_height < 0 THEN Raised(w)  \* GPUTensor, line 99
     ELSE IF out_width = 0 \/ out_height = 0
       THEN Raised(w3)      \* the backend rejects an empty output, line 127
     ELSE Returned(w4)

(* The channel assertion placed after the allocation of the output. *)
ConvolutionConfigureLate(w, i, inp, wsz) ==
  LET shape == w.tensors[inp].shape
      oshape == <<shape[1], layers[i].W.shape[1], 1, 1>>
  IN IF shape[2] # layers[i].W.shape[2]
       THEN Raised([w EXCEPT !.tensors = Append(@, TensorAlloc(oshape)),
                             !.ls[i].output = Len(w.tensors) + 1])
       ELSE ConvolutionConfigured(w, i, inp, wsz)

ConvolutionConfigure(w, i, inp, wsz) ==
  LET in_channels == w.tensors[inp].shape[2]
      filter_channels == layers[i].W.shape[2]
  IN IF in_channels # filter_channels THEN Raised(w)      \* assert, line 94
     ELSE ConvolutionConfigured(w, i, inp, wsz)

(* The kernel-size assertions placed after the release of the descriptors. *)
PoolingConfigureLate(w, i, inp, wsz) ==
  LET L == layers[i]
      S == w.ls[i]
      shape == w.tensors[inp].shape
  IN IF shape[4] < L.kW \/ shape[3] < L.kH
       THEN Raised([w EXCEPT !.descs = DestroyIfSet(DestroyIfSet(DestroyIfSet(
                                         @, S.pool_desc), S.in_desc), S.out_desc)])
       ELSE Returned([w EXCEPT
              !.tensors = Append(@, TensorAlloc(
                            <<shape[1], shape[2],
                              PoolOutSize(shape[3], L.kH, L.padH, L.dH),
                              PoolOutSize(shape[4], L.kW, L.padW, L.dW)>>)),
              !.descs = NewDesc(get_cudnn_tensor_desc(get_cudnn_tensor_desc(
                          DestroyIfSet(DestroyIfSet(DestroyIfSet(
                            @, S.pool_desc), S.in_desc), S.out_desc),
                          shape, i),
                          <<shape[1], shape[2],
                            PoolOutSize(shape[3], L.kH, L.padH, L.dH),
                            PoolOutSize(shape[4], L.kW, L.padW, L.dW)>>, i),
                          "pool", <<L.kH, L.kW, L.padH, L.padW, L.dH, L.dW>>, i),
              !.ls[i] = [S EXCEPT !.output = Len(w.tensors) + 1,
                                  !.in_desc = Len(w.descs) + 1,
                                  !.out_desc = Len(w.descs) + 2,
                                  !.pool_desc = Len(w.descs) + 3]])

PoolingConfigure(w, i, inp, wsz) ==
  LET L == layers[i]
      S == w.ls[i]
      shape == w.tensors[inp].shape
      in_images == shape[1]
      in_channels == shape[2]
      in_height == shape[3]
      in_width == shape[4]
      out_width == PoolOutSize(in_width, L.kW, L.padW, L.dW)
      out_height == PoolOutSize(in_height, L.kH, L.padH, L.dH)
      oshape == <<in_images, in_channels, out_height, out_width>>
      out == Len(w.tensors) + 1
      d0 == DestroyIfSet(DestroyIfSet(DestroyIfSet(
              w.descs, S.pool_desc), S.in_desc), S.out_desc)
      n == Len(d0)
      d1 == get_cudnn_tensor_desc(d0, shape, i)
      d2 == get_cudnn_tensor_desc(d1, oshape, i)
      d3 == NewDesc(d2, "pool", <<L.kH, L.kW, L.padH, L.padW, L.dH, L.dW>>, i)
  IN IF in_width < L.kW \/ in_height < L.kH THEN Raised(w)   \* asserts, 197-198
     ELSE Returned([w EXCEPT !.tensors = Append(@, TensorAlloc(oshape)),
                             !.descs = d3,
                             !.ls[i] = [S EXCEPT !.output = out, !.in_desc = n + 1,
                                                 !.out_desc = n + 2,
                                                 !.pool_desc = n + 3]])

(* Activation.configure giving the layer an output tensor of its own. *)
ActivationConfigureCopy(w, i, inp, wsz) ==
  Returned([w EXCEPT !.tensors = Append(@, TensorAlloc(w.tensors[inp].shape)),
                     !.descs = get_cudnn_tensor_desc(@, w.tensors[inp].shape, i),
                     !.ls[i] = [@ EXCEPT !.output = Len(w.tensors) + 1,
                                         !.inout_desc = Len(w.descs) + 1]])

ActivationConfigure(w, i, inp, wsz) ==
  Returned([w EXCEPT !.descs = get_cudnn_tensor_desc(@, w.tensors[inp].shape, i),
                     !.ls[i] = [@ EXCEPT !.output = inp,
                                         !.inout_desc = Len(w.descs) + 1]])

DropoutConfigure(w, i, inp, wsz) == Returned([w EXCEPT !.ls[i].output = inp])

LinearConfigureOutFeatures(w, i, inp, wsz) ==
  LET L == layers[i]
  IN IF Size(w.tensors[inp].shape) # L.W.shape[1] THEN Raised(w)
     ELSE Returned([w EXCEPT
            !.tensors = Append(@, TensorAlloc(<<1, L.W.shape[2], 1, 1>>)),
            !.ls[i].output = Len(w.tensors) + 1])

LinearConfigure(w, i, inp, wsz) ==
  LET L == layers[i]
      elems_per_image == Size(w.tensors[inp].shape)
  IN IF elems_per_image # L.W.shape[2] THEN Raised(w)     \* assert, line 296
     ELSE Returned([w EXCEPT
            !.tensors = Append(@, TensorAlloc(<<1, L.W.shape[1], 1, 1>>)),
            !.ls[i].output = Len(w.tensors) + 1])

SoftMaxConfigure(w, i, inp, wsz) ==
  Returned([w EXCEPT !.descs = get_cudnn_tensor_desc(@, w.tensors[inp].shape, i),
                     !.ls[i] = [@ EXCEPT !.in_desc = Len(w.descs) + 1,
                                         !.output = inp]])

(* What the claims need to know of a layer's last configure call: the tensor
   it was given, whether it returned, how often it has returned, the Model
   call it was made in (callno) and its place among the layer configure calls
   of that Model call (step), and the layers' attributes as the call found
   them (attrs: this layer's, ls: every layer's), with the numbers of tensors,
   descriptors and allocations made and released until then. *)
NoCalls ==
  [cin |-> 0, cok |-> FALSE, ncfg |-> 0, callno |-> 0, step |-> 0,
   pre |-> [attrs |-> NoAttrs, ls |-> <<>>, ntensors |-> 0, ndescs |-> 0,
            ndestroyed |-> 0, nallocs |-> 0, nfreed |-> 0]]

(* How many descriptors were destroyed (a second destroy of one counts again),
   and how many allocations freed. *)
Destroyed(ds) == SumTo([d \in 1..Len(ds) |-> ds[d].destroyed], Len(ds))
Freed(bufs) == Cardinality({b \in 1..Len(bufs) : ~bufs[b].live})

LayerConfigure(w, i, inp, wsz) ==
  LET k == layers[i].kind
      r == CASE k = "Convolution" -> ConvolutionConfigure(w, i, inp, wsz)
             [] k = "Pooling" -> PoolingConfigure(w, i, inp, wsz)
             [] k = "Activation" -> ActivationConfigure(w, i, inp, wsz)
             [] k = "Dropout" -> DropoutConfigure(w, i, inp, wsz)
             [] k = "Linear" -> LinearConfigure(w, i, inp, wsz)
             [] k = "SoftMax" -> SoftMaxConfigure(w, i, inp, wsz)
  IN [r EXCEPT !.w.gl[i] =
        [cin |-> inp, cok |-> ~r.raised,
         ncfg |-> IF r.raised THEN @.ncfg ELSE @.ncfg + 1,
         callno |-> w.now,
         step |-> Cardinality({j \in 1..Len(layers) : w.gl[j].callno = w.now}) + 1,
         pre |-> [attrs |-> w.ls[i], ls |-> w.ls, ntensors |-> Len(w.tensors),
                  ndescs |-> Len(w.descs), ndestroyed |-> Destroyed(w.descs),
                  nallocs |-> Len(w.wsbufs), nfreed |-> Freed(w.wsbufs)]]]

(* Model.configure, lines 392-394: the layers in index order, each given its
   predecessor's output; the first exception ends the call.  wsz is the
   workspace size the backend reports to the Convolution layers. *)
RECURSIVE ConfigureFromInput(_, _, _, _)
RECURSIVE ConfigureFrom(_, _, _, _)

(* Every layer configured against the graph input. *)
ConfigureFromInput(w, i, inp, wsz) ==
  IF i > Len(layers) THEN Returned(w)
  ELSE LET r == LayerConfigure(w, i, inp, wsz)
       IN IF r.raised THEN r ELSE ConfigureFromInput(r.w, i + 1, inp, wsz)

ConfigureFrom(w, i, inp, wsz) ==
  IF i > Len(layers) THEN Returned(w)
  ELSE LET r == LayerConfigure(w, i, inp, wsz)
       IN IF r.raised THEN r
          ELSE ConfigureFrom(r.w, i + 1, r.w.ls[i].output, wsz)

ModelConfigure(w, inp, wsz) == ConfigureFrom(w, 1, inp, wsz)

----------------------------------------------------------------------------
(* The backend's kernels.  A kernel reads and writes device memory through
   descriptors: buf is the data of the buffer it is pointed at, the shape is
   the descriptor's.  An element read past the end of the buffer, or from
   memory never written, is g: whatever the device holds there. *)

At(buf, j, g) == IF j <= Len(buf) THEN buf[j] ELSE g

Contents(t, g) == IF t.init THEN t.data ELSE Fill(Len(t.data), g)

(* Writing vals from the start of a buffer holding data. *)
WritePrefix(data, vals) ==
  [j \in 1..Len(data) |-> IF j <= Len(vals) THEN vals[j] ELSE data[j]]

Written(t, vals) ==
  [t EXCEPT !.data = WritePrefix(@, vals), !.init = @ \/ Len(vals) >= Len(t.data)]

RECURSIVE SumOver(_, _)
SumOver(f, S) ==
  IF S = {} THEN 0
  ELSE LET x == CHOOSE y \in S : TRUE IN f[x] + SumOver(f, S \ {x})

(* NCHW position of the element (b, c, y, x), counted from 0, as an index. *)
Flat(shape, b, c, y, x) == ((b * shape[2] + c) * shape[3] + y) * shape[4] + x + 1

(* The element (b, c, y, x) of the input; 0 in the padding. *)
Padded(buf, shape, b, c, y, x, g) ==
  IF y < 0 \/ y >= shape[3] \/ x < 0 \/ x >= shape[4] THEN 0
  ELSE At(buf, Flat(shape, b, c, y, x), g)

(* cudnnConvolutionForward, CUDNN_CROSS_CORRELATION, alpha = 1, beta = 0:
   fshape is the filter descriptor's (maps, channels, kH, kW), cdims the
   convolution descriptor's (padH, padW, dH, dW). *)
ConvolutionForward(buf, ishape, wbuf, fshape, cdims, oshape, g) ==
  LET taps == (0..(fshape[2] - 1)) \X (0..(fshape[3] - 1)) \X (0..(fshape[4] - 1))
      elem(o) ==
        LET ox == o % oshape[4]
            oy == (o \div oshape[4]) % oshape[3]
            f == (o \div (oshape[4] * oshape[3])) % oshape[2]
            b == o \div (oshape[4] * oshape[3] * oshape[2])
        IN SumOver([t \in taps |->
                      At(wbuf, Flat(fshape, f, t[1], t[2], t[3]), g)
                      * Padded(buf, ishape, b, t[1],
                               oy * cdims[3] - cdims[1] + t[2],
                               ox * cdims[4] - cdims[2] + t[3], g)],
                   taps)
  IN [j \in 1..Size(oshape) |-> elem(j - 1)]

(* cudnnPoolingForward, CUDNN_POOLING_MAX: pdims is the pooling descriptor's
   (kH, kW, padH, padW, dH, dW); the padding takes no part in the maximum. *)
PoolingForward(buf, ishape, pdims, oshape, g) ==
  LET elem(o) ==
        LET ox == o % oshape[4]
            oy == (o \div oshape[4]) % oshape[3]
            c == (o \div (oshape[4] * oshape[3])) % oshape[2]
            b == o \div (oshape[4] * oshape[3] * oshape[2])
            cells == {t \in (0..(pdims[1] - 1)) \X (0..(pdims[2] - 1)) :
                        LET y == oy * pdims[5] - pdims[3] + t[1]
                            x == ox * pdims[6] - pdims[4] + t[2]
                        IN y >= 0 /\ y < ishape[3] /\ x >= 0 /\ x < ishape[4]}
        IN IF cells = {} THEN g
           ELSE MaxOf({At(buf, Flat(ishape, b, c,
                                    oy * pdims[5] - pdims[3] + t[1],
                                    ox * pdims[6] - pdims[4] + t[2]), g) : t \in cells})
  IN [j \in 1..Size(oshape) |-> elem(j - 1)]

ReLU(v) == IF v > 0 THEN v ELSE 0

(* cudnnActivationForward, CUDNN_ACTIVATION_RELU, over the n elements the
   descriptor names. *)
ActivationForward(buf, n, g) == [j \in 1..n |-> ReLU(At(buf, j, g))]

(* cudnnSoftmaxForward, CUDNN_SOFTMAX_MODE_CHANNEL: each element against the
   elements of the other channels at its image and position.  The exponentials
   are outside integer arithmetic; the model keeps the sum's largest term, which
   is exact for one channel: LOG gives x - max, the others One at the maximum
   and 0 elsewhere. *)
SoftmaxForward(algo, buf, shape, g) ==
  LET elem(o) ==
        LET x == o % shape[4]
            y == (o \div shape[4]) % shape[3]
            b == o \div (shape[4] * shape[3] * shape[2])
            m == MaxOf({At(buf, Flat(shape, b, c, y, x), g) : c \in 0..(shape[2] - 1)})
            v == At(buf, o + 1, g)
        IN IF algo = "CUDNN_SOFTMAX_LOG" THEN v - m
           ELSE IF v = m THEN One ELSE 0
  IN [j \in 1..Size(shape) |-> elem(j - 1)]

(* cublas_dot.cublas_gemm(W, input_2d, output_2d): W x input, W row-major
   outF x inF. *)
Gemm(wbuf, wshape, buf) ==
  [o \in 1..wshape[1] |->
     SumTo([j \in 1..wshape[2] |-> wbuf[(o - 1) * wshape[2] + j] * buf[j]], wshape[2])]

----------------------------------------------------------------------------
(* fprop of each layer class.  The result: ok (it did not raise), ub (the
   kernel was handed a destroyed descriptor, or a buffer smaller than its
   descriptor says, or memory never written), and the tensors after it. *)

FpropRaised(w) == [ok |-> FALSE, ub |-> FALSE, tensors |-> w.tensors]
FpropDone(ts, ub) == [ok |-> TRUE, ub |-> ub, tensors |-> ts]

Dead(w, d) == w.descs[d].destroyed > 0

ConvolutionFprop(w, i, inp, g) ==
  LET S == w.ls[i]
      L == layers[i]
      in_d == w.descs[S.in_desc]
      out_d == w.descs[S.out_desc]
      filt_d == w.descs[S.filt_desc]
      conv_d == w.descs[S.conv_desc]
      src == w.tensors[inp]
      dst == w.tensors[S.output]
      vals == ConvolutionForward(Contents(src, g), in_d.dims, L.W.data, filt_d.dims,
                                 conv_d.dims, out_d.dims, g)
      ub == \/ Dead(w, S.in_desc) \/ Dead(w, S.out_desc)
            \/ Dead(w, S.filt_desc) \/ Dead(w, S.conv_desc)
            \/ ~src.init
            \/ Size(in_d.dims) > Len(src.data)
            \/ Size(out_d.dims) > Len(dst.data)
            \/ Size(filt_d.dims) > Len(L.W.data)
  IN IF inp <= 0 \/ S.output <= 0 THEN FpropRaised(w)          \* lines 153, 155
     ELSE IF S.ws_ptr = Absent THEN FpropRaised(w)             \* line 156
     ELSE IF S.in_desc <= 0 \/ S.out_desc <= 0 THEN FpropRaised(w)  \* 161, 164
     ELSE FpropDone([w.tensors EXCEPT ![S.output] = Written(@, vals)], ub)

PoolingFprop(w, i, inp, g) ==
  LET S == w.ls[i]
      in_d == w.descs[S.in_desc]
      out_d == w.descs[S.out_desc]
      pool_d == w.descs[S.pool_desc]
      src == w.tensors[inp]
      dst == w.tensors[S.output]
      vals == PoolingForward(Contents(src, g), in_d.dims, pool_d.dims, out_d.dims, g)
      ub == \/ Dead(w, S.in_desc) \/ Dead(w, S.out_desc) \/ Dead(w, S.pool_desc)
            \/ ~src.init
            \/ Size(in_d.dims) > Len(src.data)
            \/ Size(out_d.dims) > Len(dst.data)
  IN IF inp <= 0 \/ S.output <= 0 THEN FpropRaised(w)          \* lines 222, 223
     ELSE IF S.pool_desc <= 0 \/ S.in_desc <= 0 \/ S.out_desc <= 0
       THEN FpropRaised(w)
     ELSE FpropDone([w.tensors EXCEPT ![S.output] = Written(@, vals)], ub)

(* The backend is always asked for CUDNN_ACTIVATION_RELU, in place on the
   input's buffer. *)
ActivationFprop(w, i, inp, g) ==
  LET S == w.ls[i]
      inout_d == w.descs[S.inout_desc]
      src == w.tensors[inp]
      vals == ActivationForward(Contents(src, g), Size(inout_d.dims), g)
      ub == Dead(w, S.inout_desc) \/ ~src.init \/ Size(inout_d.dims) > Len(src.data)
  IN IF inp <= 0 THEN FpropRaised(w)                           \* line 251
     ELSE IF S.inout_desc <= 0 THEN FpropRaised(w)             \* line 257
     ELSE FpropDone([w.tensors EXCEPT ![inp] = Written(@, vals)], ub)

(* input *= self.p *)
DropoutFprop(w, i, inp, g) ==
  LET L == layers[i]
      src == w.tensors[inp]
      vals == [j \in 1..Len(src.data) |-> (Contents(src, g)[j] * L.pNum) \div L.pDen]
  IN IF inp <= 0 THEN FpropRaised(w)
     ELSE FpropDone([w.tensors EXCEPT ![inp] = Written(@, vals)], ~src.init)

LinearFprop(w, i, inp, g) ==
  LET S == w.ls[i]
      L == layers[i]
      src == w.tensors[inp]
      vals == Gemm(L.W.data, L.W.shape, Contents(src, g))
  IN IF inp <= 0 THEN FpropRaised(w)
     ELSE IF Len(src.data) # L.W.shape[2] THEN FpropRaised(w)  \* reshape, line 300
     ELSE IF S.output <= 0 THEN FpropRaised(w)                 \* line 301
     ELSE FpropDone([w.tensors EXCEPT ![S.output] = Written(@, vals)], ~src.init)

(* The backend is always asked for CUDNN_SOFTMAX_LOG; it reads the input and
   writes self.output, both through in_desc. *)
SoftMaxFprop(w, i, inp, g) ==
  LET S == w.ls[i]
      in_d == w.descs[S.in_desc]
      src == w.tensors[inp]
      dst == w.tensors[S.output]
      vals == SoftmaxForward("CUDNN_SOFTMAX_LOG", Contents(src, g), in_d.dims, g)
      ub == \/ Dead(w, S.in_desc) \/ ~src.init
            \/ Size(in_d.dims) > Len(src.data)
            \/ Size(in_d.dims) > Len(dst.data)
  IN IF S.in_desc <= 0 \/ inp <= 0 \/ S.output <= 0 THEN FpropRaised(w)
     ELSE FpropDone([w.tensors EXCEPT ![S.output] = Written(@, vals)], ub)

LayerFprop(w, i, inp, g) ==
  LET k == layers[i].kind
  IN CASE k = "Convolution" -> ConvolutionFprop(w, i, inp, g)
       [] k = "Pooling" -> PoolingFprop(w, i, inp, g)
       [] k = "Activation" -> ActivationFprop(w, i, inp, g)
       [] k = "Dropout" -> DropoutFprop(w, i, inp, g)
       [] k = "Linear" -> LinearFprop(w, i, inp, g)
       [] k = "SoftMax" -> SoftMaxFprop(w, i, inp, g)

(* Model.evaluate, lines 400-407.  It returns status "returned" and the host
   copy y of the last layer's output, or "raised".  Where a kernel's behaviour
   is undefined the device either faults (crash) or carries on with g for
   what it could not read. *)
EvalRaised(w, ub) == [w |-> w, status |-> "raised", y |-> <<>>, ub |-> ub]

RECURSIVE EvaluateFrom(_, _, _, _, _, _)
EvaluateFrom(w, i, inp, g, crash, ub) ==
  IF i > Len(layers)
    THEN LET last == w.ls[Len(layers)].output
         IN IF last <= 0 THEN EvalRaised(w, ub)                \* line 405
            ELSE [w |-> w, status |-> "returned",
                  y |-> Contents(w.tensors[last], g),
                  ub |-> ub \/ ~w.tensors[last].init]
  ELSE IF inp = Absent THEN EvalRaised(w, ub)                  \* line 403
  ELSE LET r == LayerFprop(w, i, inp, g)
       IN IF ~r.ok THEN EvalRaised(w, ub)
          ELSE IF r.ub /\ crash THEN EvalRaised(w, TRUE)
          ELSE EvaluateFrom([w EXCEPT !.tensors = r.tensors], i + 1,
                            w.ls[i].output, g, crash, ub \/ r.ub)

(* The commented-out line 398 left in: evaluate configures first. *)
ModelEvaluateConfiguring(w, inp, g, crash) ==
  IF layers = <<>> THEN EvalRaised(w, FALSE)
  ELSE LET c == ModelConfigure(w, inp, 0)
       IN IF c.raised THEN EvalRaised(c.w, FALSE)
          ELSE EvaluateFrom(c.w, 1, inp, g, crash, FALSE)

ModelEvaluate(w, inp, g, crash) ==
  IF layers = <<>> THEN EvalRaised(w, FALSE)                   \* line 400
  ELSE EvaluateFrom(w, 1, inp, g, crash, FALSE)

----------------------------------------------------------------------------
(* The caller: the script's input_tensor, and a second tensor it builds, of
   the same shape or of another. *)

InputTensor == TensorOf(<<1, 1, 2, 2>>, <<One, -2 * One, 3 * One, 0>>)

SecondTensors ==
  { TensorOf(<<1, 1, 2, 2>>, <<-One, 2 * One, 0, 4 * One>>),
    TensorOf(<<1, 2, 2, 2>>,
             <<One, -One, 2 * One, 0, -3 * One, One, One, 2 * One>>),
    TensorOf(<<1, 1, 1, 1>>, <<2 * One>>) }

Inputs == {1, 2}


(* What the device may hold where the program has written nothing. *)
Garbage == {0, 7 * One}

(* The workspace sizes cudnnGetConvolutionForwardWorkspaceSize may report. *)
WsSizes == {0, 64}

NoSize == [layer |-> "", in |-> 0, k |-> 0, pad |-> 0, d |-> 0, out |-> 0,
           status |-> "unused"]

NoBuild == [file |-> <<>>, status |-> "unused", error |-> "", at |-> 0,
            layers |-> <<>>, ntensors |-> 0, before |-> 0]

NoCall == [op |-> "none", arg |-> 0, status |-> "none", y |-> <<>>, ub |-> FALSE,
           xin |-> <<>>]

World ==
  [ls |-> lstate, tensors |-> tensors, descs |-> descs, wsbufs |-> wsbufs,
   gl |-> lcalls, now |-> hist.ncalls + 1]

Init ==
  /\ \E file \in ModelFiles : layers = ModelInit(file).layers
  /\ lstate = [i \in 1..Len(layers) |-> LayerInit(layers[i])]
  /\ minput = None
  /\ \E second \in SecondTensors : tensors = <<InputTensor, second>>
  /\ descs = <<>>
  /\ wsbufs = <<>>
  /\ call = NoCall
  /\ lcalls = [i \in 1..Len(layers) |-> NoCalls]
  /\ hist = [ncalls |-> 0, cfg |-> "none", cfgShape |-> <<>>, prev |-> NoCall]
  /\ sz = NoSize
  /\ build = NoBuild

(* model.configure(t) *)
Configure(t) ==
  /\ hist.ncalls < MaxCalls
  /\ \E wsz \in WsSizes :
       \E r \in {ModelConfigure(World, t, wsz)} :
          /\ minput' = t                                       \* line 387
          /\ lstate' = r.w.ls
          /\ tensors' = r.w.tensors
          /\ descs' = r.w.descs
          /\ wsbufs' = r.w.wsbufs
          /\ lcalls' = r.w.gl
          /\ call' = [op |-> "configure", arg |-> t,
                      status |-> IF r.raised THEN "raised" ELSE "returned",
                      y |-> <<>>, ub |-> FALSE, xin |-> tensors[t].data]
          /\ hist' = [ncalls |-> hist.ncalls + 1,
                      cfg |-> IF r.raised THEN "failed" ELSE "ok",
                      cfgShape |-> tensors[t].shape,
                      prev |-> call]
  /\ UNCHANGED <<layers, sz, build>>

(* What model.evaluate(t) can do: one thing where every kernel's behaviour is
   defined, and otherwise a fault or a run on with each value the device may
   hold. *)
EvaluateOutcomes(w, t) ==
  LET r == ModelEvaluate(w, t, 0, FALSE)
  IN IF r.ub THEN {ModelEvaluate(w, t, g, crash) : g \in Garbage, crash \in BOOLEAN}
     ELSE {r}

(* model.evaluate(t) *)
Evaluate(t) ==
  /\ hist.ncalls < MaxCalls
  /\ \E r \in EvaluateOutcomes(World, t) :
          /\ lstate' = r.w.ls
          /\ tensors' = r.w.tensors
          /\ descs' = r.w.descs
          /\ wsbufs' = r.w.wsbufs
          /\ lcalls' = r.w.gl
          /\ call' = [op |-> "evaluate", arg |-> t, status |-> r.status,
                      y |-> r.y, ub |-> r.ub, xin |-> tensors[t].data]
          /\ hist' = [hist EXCEPT !.ncalls = @ + 1, !.prev = call]
  /\ UNCHANGED <<layers, minput, sz, build>>

Next == \/ \E t \in Inputs : Configure(t)
        \/ \E t \in Inputs : Evaluate(t)

Spec == Init /\ [][Next]_vars

----------------------------------------------------------------------------
(* The output-size arithmetic on its own: one spatial axis of one sliding
   layer, over every input size, kernel, padding and stride of the bounds. *)

InitSize ==
  /\ layers = <<>> /\ lstate = <<>> /\ minput = None /\ tensors = <<>>
  /\ descs = <<>> /\ wsbufs = <<>> /\ call = NoCall /\ lcalls = <<>>
  /\ hist = [ncalls |-> 0, cfg |-> "none", cfgShape |-> <<>>, prev |-> NoCall]
  /\ build = NoBuild
  /\ \E layer \in {"Convolution", "Pooling"}, in \in 1..MaxIn, k \in 1..MaxKernel,
        pad \in 0..MaxPad, d \in 1..MaxStride :
       sz = [layer |-> layer, in |-> in, k |-> k, pad |-> pad, d |-> d, out |-> 0,
             status |-> "input"]

(* Convolution.configure, lines 96-97 *)
ConvolutionSize ==
  /\ sz.layer = "Convolution" /\ sz.status = "input"
  /\ sz' = [sz EXCEPT !.out = ConvOutSize(sz.in, sz.k, sz.pad, sz.d),
                      !.status = "computed"]
  /\ UNCHANGED <<layers, lstate, minput, tensors, descs, wsbufs, call, lcalls, hist,
                 build>>

(* Pooling.configure, lines 197-201 *)
PoolingSize ==
  /\ sz.layer = "Pooling" /\ sz.status = "input"
  /\ sz' = IF sz.in >= sz.k
             THEN [sz EXCEPT !.out = PoolOutSize(sz.in, sz.k, sz.pad, sz.d),
                             !.status = "computed"]
             ELSE [sz EXCEPT !.status = "raised"]
  /\ UNCHANGED <<layers, lstate, minput, tensors, descs, wsbufs, call, lcalls, hist,
                 build>>

NextSize == ConvolutionSize \/ PoolingSize

SpecSize == InitSize /\ [][NextSize]_vars

----------------------------------------------------------------------------
(* The layer classes used directly: a graph of one Activation or SoftMax
   layer constructed with any selector its class declares (Activation.Func,
   SoftMax.Mode), configured and evaluated like any other. *)

Funcs == {"ReLU", "TanH"}
Modes == {"FAST", "LOG"}

DirectLayers ==
  {ActivationInit(f, Rec("")) : f \in Funcs} \cup {SoftMaxInit(m, Rec("")) : m \in Modes}

InitLayer ==
  /\ \E L \in DirectLayers : layers = <<L>>
  /\ lstate = [i \in 1..Len(layers) |-> LayerInit(layers[i])]
  /\ minput = None
  /\ \E second \in SecondTensors : tensors = <<InputTensor, second>>
  /\ descs = <<>>
  /\ wsbufs = <<>>
  /\ call = NoCall
  /\ lcalls = [i \in 1..Len(layers) |-> NoCalls]
  /\ hist = [ncalls |-> 0, cfg |-> "none", cfgShape |-> <<>>, prev |-> NoCall]
  /\ sz = NoSize
  /\ build = NoBuild

SpecLayer == InitLayer /\ [][Next]_vars

----------------------------------------------------------------------------
(* Construction on its own: Model(json_model_file) over the model files of
   the bounds, the ones that cannot be built included. *)

BuildRecords ==
  { PoolRec(2, 2, 0, False),
    PoolRec(2, 2, 0, True),
    SlidingRec("SpatialMaxPooling", 2, 2, 0),      \* no "ceil_mode" key
    Rec("View"),
    Rec("ReLU"),
    Rec("Threshold"),
    Rec("SpatialAveragePooling"),
    LinearRec(2, 4, <<1, 0, -1, 2, 0, 1, 1, 0>>),
    Rec("LogSoftMax") }

BuildFiles == SeqsUpTo(BuildRecords, MaxRecords)

InitBuild ==
  /\ layers = <<>> /\ lstate = <<>> /\ minput = None /\ tensors = <<>>
  /\ descs = <<>> /\ wsbufs = <<>> /\ call = NoCall /\ lcalls = <<>>
  /\ hist = [ncalls |-> 0, cfg |-> "none", cfgShape |-> <<>>, prev |-> NoCall]
  /\ sz = NoSize
  /\ \E file \in BuildFiles : build = [NoBuild EXCEPT !.file = file, !.status = "file"]

(* model = Model(file) *)
Construct ==
  /\ build.status = "file"
  /\ \E r \in {ModelInit(build.file)} :
       build' = [file |-> build.file,
                 status |-> IF r.raised THEN "raised" ELSE "built",
                 error |-> r.error, at |-> r.at, layers |-> r.layers,
                 ntensors |-> r.ntensors, before |-> r.before]
  /\ UNCHANGED <<layers, lstate, minput, tensors, descs, wsbufs, call, lcalls, hist,
                 sz>>

NextBuild == Construct

SpecBuild == InitBuild /\ [][NextBuild]_vars

----------------------------------------------------------------------------
(* What the claims speak of *)

Shape(t) == tensors[t].shape

(* The layer whose configure raised in the last Model.configure call that
   failed: the layers before it returned in that call. *)
FailedAt == CHOOSE i \in 1..Len(layers) :
              /\ ~lcalls[i].cok
              /\ \A j \in 1..(i - 1) : lcalls[j].cok

(* The descriptors layer i created and has not destroyed, and its device
   allocations not freed. *)
LiveDescs(i) == {d \in 1..Len(descs) : descs[d].owner = i /\ descs[d].destroyed = 0}
LiveWs(i) == {b \in 1..Len(wsbufs) : wsbufs[b].owner = i /\ wsbufs[b].live}

(* The descriptors one configure call of a layer of this kind creates. *)
DescsPerConfigure(kind) ==
  CASE kind = "Convolution" -> 4
    [] kind = "Pooling" -> 3
    [] kind = "Activation" -> 1
    [] kind = "SoftMax" -> 1
    [] OTHER -> 0

(* The forward function of layer L on data d of the given shape, as a value:
   the data and the shape it yields. *)
Forward(L, d, shape) ==
  CASE L.kind = "Convolution" ->
         LET oshape == <<shape[1], L.W.shape[1],
                         ConvOutSize(shape[3], L.kH, L.padH, L.dH),
                         ConvOutSize(shape[4], L.kW, L.padW, L.dW)>>
         IN [shape |-> oshape,
             data |-> ConvolutionForward(d, shape, L.W.data,
                        <<L.W.shape[1], L.W.shape[2], L.kH, L.kW>>,
                        <<L.padH, L.padW, L.dH, L.dW>>, oshape, 0)]
    [] L.kind = "Pooling" ->
         LET oshape == <<shape[1], shape[2],
                         PoolOutSize(shape[3], L.kH, L.padH, L.dH),
                         PoolOutSize(shape[4], L.kW, L.padW, L.dW)>>
         IN [shape |-> oshape,
             data |-> PoolingForward(d, shape,
                        <<L.kH, L.kW, L.padH, L.padW, L.dH, L.dW>>, oshape, 0)]
    [] L.kind = "Activation" ->
         [shape |-> shape,
          data |-> ActivationForward(d, Len(d), 0)]
    [] L.kind = "Dropout" ->
         [shape |-> shape, data |-> [j \in 1..Len(d) |-> (d[j] * L.pNum) \div L.pDen]]
    [] L.kind = "Linear" ->
         [shape |-> <<1, L.W.shape[1], 1, 1>>, data |-> Gemm(L.W.data, L.W.shape, d)]
    [] L.kind = "SoftMax" ->
         [shape |-> shape, data |-> SoftmaxForward("CUDNN_SOFTMAX_LOG", d, shape, 0)]

RECURSIVE Composition(_, _, _)
(* The forward functions of layers i, i+1, ... applied in order. *)
Composition(i, d, shape) ==
  IF i > Len(layers) THEN d
  ELSE LET r == Forward(layers[i], d, shape) IN Composition(i + 1, r.data, r.shape)

----------------------------------------------------------------------------
(* C1: Model.evaluate called before any Model.configure call raises and
   returns no result, whatever the layers are. *)
C1_EvaluateBeforeConfigureRaises ==
  (call.op = "evaluate" /\ hist.cfg = "none") => call.status = "raised"

(* evaluate was called first on a model that starts with a Dropout layer,
   whose fprop needs nothing from configure, and raised. *)
C1_Witness ==
  /\ call.op = "evaluate" /\ hist.cfg = "none" /\ call.status = "raised"
  /\ Len(layers) = MaxLayers /\ layers[1].kind = "Dropout"

(* C2: after a configure that succeeded, an evaluate of an input of another
   shape returns no result.  (Stated of the runs in which every kernel's
   behaviour is defined.) *)
C2_ShapeChangeRejected ==
  (/\ call.op = "evaluate" /\ hist.cfg = "ok" /\ ~call.ub
   /\ Shape(call.arg) # hist.cfgShape)
    => call.status # "returned"

(* C3: after a Model.configure in which a layer's configure failed, an evaluate
   returns no result.  (Stated of the runs in which every kernel's behaviour
   is defined.) *)
C3_FailedConfigureInvalidates ==
  (call.op = "evaluate" /\ hist.cfg = "failed" /\ ~call.ub)
    => call.status # "returned"

(* C4: after a successful configure, what evaluate returns for a tensor of the
   configured shape is the composition of the layers' forward functions, in
   layer order, applied to that tensor's data. *)
C4_EvaluateIsComposition ==
  (/\ call.op = "evaluate" /\ hist.cfg = "ok" /\ ~call.ub
   /\ Shape(call.arg) = hist.cfgShape /\ call.status = "returned")
    => call.y = Composition(1, call.xin, Shape(call.arg))

(* C5: on a configured model, two evaluate calls in a row with the same input
   tensor return the same output. *)
C5_EvaluateIdempotent ==
  (/\ call.op = "evaluate" /\ hist.prev.op = "evaluate" /\ hist.cfg = "ok"
   /\ call.arg = hist.prev.arg
   /\ call.status = "returned" /\ hist.prev.status = "returned"
   /\ ~call.ub /\ ~hist.prev.ub)
    => call.y = hist.prev.y

(* C6: the output size Convolution.configure computes on an axis is
   floor((in + 2 pad - k) / stride) + 1, for every in, k, pad >= 0 and
   stride >= 1, the kernel larger than the padded input included. *)
C6_ConvolutionSizeIsFloor ==
  (sz.layer = "Convolution" /\ sz.status = "computed")
    => sz.out = ((sz.in + 2 * sz.pad - sz.k) \div sz.d) + 1

(* C7: the output size Pooling.configure computes on an axis it accepts
   (in >= k) is floor((in - k + 2 pad) / stride) + 1. *)
C7_PoolingSizeIsFloor ==
  /\ (sz.layer = "Pooling" /\ sz.status = "computed")
       => sz.out = ((sz.in - sz.k + 2 * sz.pad) \div sz.d) + 1
  /\ (sz.layer = "Pooling" /\ sz.status = "raised") => sz.in < sz.k

(* An accepted pooling axis whose division leaves a remainder. *)
C7_Witness ==
  /\ sz.layer = "Pooling" /\ sz.status = "computed"
  /\ (sz.in - sz.k + 2 * sz.pad) % sz.d # 0
  /\ sz.pad > 0

(* C8: after any number of successful configure calls of a layer, its output
   has the shape its input's shape gives, and it holds as many live
   descriptors and workspace buffers as after one configure call. *)
C8_ReconfigureReleases ==
  \A i \in 1..Len(layers) :
    (lcalls[i].cok /\ lcalls[i].ncfg >= 1)
      => /\ Shape(lstate[i].output) =
              Forward(layers[i], tensors[lcalls[i].cin].data, Shape(lcalls[i].cin)).shape
         /\ Cardinality(LiveDescs(i)) = DescsPerConfigure(layers[i].kind)
         /\ Cardinality(LiveWs(i)) = IF lstate[i].ws_size > 0 THEN 1 ELSE 0

(* C9: Convolution.configure given an input whose channel count differs from
   the weights' filter channel count fails, and leaves the layer's attributes,
   the tensors, the descriptors and the allocations as they were. *)
C9_ChannelMismatchFails ==
  \A i \in 1..Len(layers) :
    (/\ layers[i].kind = "Convolution" /\ lcalls[i].cin > 0
     /\ Shape(lcalls[i].cin)[2] # layers[i].W.shape[2])
      => /\ ~lcalls[i].cok
         /\ (hist.cfg = "failed" /\ FailedAt = i)
              => /\ lstate[i] = lcalls[i].pre.attrs
                 /\ Len(tensors) = lcalls[i].pre.ntensors
                 /\ Len(descs) = lcalls[i].pre.ndescs
                 /\ Destroyed(descs) = lcalls[i].pre.ndestroyed
                 /\ Len(wsbufs) = lcalls[i].pre.nallocs
                 /\ Freed(wsbufs) = lcalls[i].pre.nfreed

(* A configured Convolution layer was configured again, with an input of
   another channel count, and that call failed. *)
C9_Witness ==
  \E i \in 1..Len(layers) :
    /\ layers[i].kind = "Convolution" /\ lcalls[i].ncfg >= 1
    /\ hist.cfg = "failed" /\ FailedAt = i
    /\ Shape(lcalls[i].cin)[2] # layers[i].W.shape[2]
    /\ lstate[i].output > 0

(* C10: Linear.configure fails when the product of the input's dimensions
   differs from inFeatures; when they are equal it succeeds and the output
   has outFeatures elements, shaped (1, outFeatures, 1, 1). *)
C10_LinearElementCount ==
  \A i \in 1..Len(layers) :
    (layers[i].kind = "Linear" /\ lcalls[i].cin > 0)
      => IF Size(Shape(lcalls[i].cin)) # layers[i].W.shape[2]
           THEN ~lcalls[i].cok
           ELSE /\ lcalls[i].cok
                /\ lstate[i].output > 0
                /\ Shape(lstate[i].output) = <<1, layers[i].W.shape[1], 1, 1>>
                /\ Len(tensors[lstate[i].output].data) = layers[i].W.shape[1]

(* A Linear layer was configured with a matching input, and then again with
   an input of another element count, which failed. *)
C10_Witness ==
  \E i \in 1..Len(layers) :
    /\ layers[i].kind = "Linear" /\ lcalls[i].ncfg >= 1 /\ ~lcalls[i].cok
    /\ Size(Shape(lcalls[i].cin)) # layers[i].W.shape[2]
    /\ lstate[i].output > 0

----------------------------------------------------------------------------
(* The records of a file that are Pooling records with the given ceil_mode. *)
PoolingRecords(file, ceil) ==
  {j \in 1..Len(file) : file[j].type = "SpatialMaxPooling" /\ file[j].ceil_mode = ceil}

(* The types instantiate_layer has a class for, and the class. *)
KindOf(type) ==
  CASE type = "SpatialConvolution" -> "Convolution"
    [] type \in {"ReLU", "Threshold"} -> "Activation"
    [] type = "SpatialMaxPooling" -> "Pooling"
    [] type = "Dropout" -> "Dropout"
    [] type = "Linear" -> "Linear"
    [] type = "LogSoftMax" -> "SoftMax"
    [] OTHER -> "none"

(* C11: a file with a Pooling record whose ceil_mode is true yields no Model,
   and the Pooling constructor given such a record fails with no tensor
   made in it. *)
C11_CeilModeFailsInConstructor ==
  build.status \in {"built", "raised"} =>
    /\ (\E j \in PoolingRecords(build.file, True) :
           \A h \in 1..(j - 1) : build.file[h].type = "View")
         => build.status = "raised" /\ build.error = "AssertionError"
    /\ PoolingRecords(build.file, True) # {} => build.status = "raised"
    /\ (build.status = "raised" /\ build.at \in PoolingRecords(build.file, True))
         => /\ build.error = "AssertionError"
            /\ build.ntensors = build.before
            /\ build.layers = <<>>

(* The constructor of a ceil_mode Pooling record failed after a Linear layer,
   which loads tensors, had been built. *)
C11_Witness ==
  /\ build.status = "raised" /\ build.at \in PoolingRecords(build.file, True)
  /\ build.at > 1 /\ build.before > 0

(* C12: the Pooling constructor accepts a record whose ceil_mode is false and
   a record that has no ceil_mode: it fails on no other record than one whose
   ceil_mode is true. *)
C12_AbsentCeilModeAccepted ==
  (/\ build.status = "raised" /\ build.at > 0
   /\ build.file[build.at].type = "SpatialMaxPooling")
    => build.file[build.at].ceil_mode = True

(* C13: a file with a record of a type that has no class yields no Model; a
   Model that is built has the file's records without the "View" records, in
   file order, each as a layer of the class of its type. *)
C13_DispatchOnType ==
  build.status \in {"built", "raised"} =>
    /\ (\E j \in 1..Len(build.file) :
           build.file[j].type # "View" /\ KindOf(build.file[j].type) = "none")
         => build.status = "raised"
    /\ build.status = "built" =>
         LET kept == SelectSeq(build.file, LAMBDA rec : rec.type # "View")
         IN /\ Len(build.layers) = Len(kept)
            /\ \A i \in 1..Len(kept) :
                 /\ build.layers[i].type = kept[i].type
                 /\ build.layers[i].kind = KindOf(kept[i].type)
                 /\ build.layers[i].W = kept[i].W

(* A Model built from a file with a "View" record between two others of
   different classes. *)
C13_Witness ==
  /\ build.status = "built" /\ Len(build.file) = 3 /\ Len(build.layers) = 2
  /\ build.file[2].type = "View"
  /\ build.layers[1].kind # build.layers[2].kind

(* The tensor the fprop of layer i was given in the last evaluate call. *)
FpropInput(i) == IF i = 1 THEN call.arg ELSE lstate[i - 1].output

(* C14: after Linear.fprop the layer's output is W x input + bias.  (Stated of
   a Linear layer that is the model's last, after an evaluate call that
   returned with every kernel's behaviour defined.) *)
C14_LinearAddsBias ==
  LET n == Len(layers)
  IN (/\ call.op = "evaluate" /\ call.status = "returned" /\ ~call.ub
      /\ layers[n].kind = "Linear")
       => LET W == layers[n].W
              bias == layers[n].bias
              x == tensors[FpropInput(n)].data
          IN call.y = [o \in 1..W.shape[1] |-> Gemm(W.data, W.shape, x)[o] + bias.data[o]]

(* The layer classes whose configure makes a new output tensor, and the ones
   whose output is their input. *)
Allocating == {"Convolution", "Pooling", "Linear"}
InPlace == {"Activation", "Dropout", "SoftMax"}

(* Layer i's configure, in its last call, set the layer's present output:
   a tensor made in that call, or the call's input. *)
OutputFromLastConfigure(i) ==
  IF layers[i].kind \in Allocating
    THEN lstate[i].output > lcalls[i].pre.ntensors
    ELSE lstate[i].output = lcalls[i].cin

(* C15: in a Model.configure call that returned, the layers were configured
   in index order in that call, layer 1 with the graph input and layer i > 1
   with the output layer i-1 got in that same call. *)
C15_ConfigureChainsOutputs ==
  (call.op = "configure" /\ call.status = "returned") =>
    \A i \in 1..Len(layers) :
      /\ lcalls[i].cok /\ lcalls[i].callno = hist.ncalls /\ lcalls[i].step = i
      /\ OutputFromLastConfigure(i)
      /\ lcalls[i].cin = IF i = 1 THEN call.arg ELSE lstate[i - 1].output
      /\ (i > 1 /\ layers[i - 1].kind \in Allocating)
           => lcalls[i].cin # lcalls[i - 1].pre.attrs.output

(* A second successful Model.configure of a model whose first layer makes its
   own output: the output of the earlier call is still there, and is not what
   the second layer was given. *)
C15_Witness ==
  /\ call.op = "configure" /\ call.status = "returned" /\ Len(layers) >= 2
  /\ layers[1].kind \in Allocating
  /\ lcalls[1].pre.attrs.output > 0
  /\ lcalls[2].cin = lstate[1].output

(* The descriptors layer i holds in its attributes. *)
HeldDescs(i) ==
  {d \in {lstate[i].in_desc, lstate[i].out_desc, lstate[i].filt_desc,
          lstate[i].conv_desc, lstate[i].pool_desc, lstate[i].inout_desc} : d > 0}

(* The descriptor layer i hands the backend for its input. *)
InputDesc(i) ==
  IF layers[i].kind = "Activation" THEN lstate[i].inout_desc ELSE lstate[i].in_desc

(* C16: no descriptor is destroyed more than once, and an evaluate call that
   returned ran no fprop with a descriptor that was destroyed, or with a
   descriptor of a tensor that a later configure has replaced: the input
   descriptor of a layer is of its predecessor's present output, the output
   descriptor of its own. *)
C16_NoStaleDescriptor ==
  /\ \A d \in 1..Len(descs) : descs[d].destroyed <= 1
  /\ (call.op = "evaluate" /\ call.status = "returned") =>
       \A i \in 1..Len(layers) :
         /\ \A d \in HeldDescs(i) : descs[d].destroyed = 0
         /\ (i > 1 /\ layers[i].kind \in {"Convolution", "Pooling", "Activation", "SoftMax"})
              => descs[InputDesc(i)].dims = Shape(lstate[i - 1].output)
         /\ (layers[i].kind \in {"Convolution", "Pooling"})
              => descs[lstate[i].out_desc].dims = Shape(lstate[i].output)

(* C17: after a Model.configure that returned, the output of an Activation,
   Dropout or SoftMax layer is the very tensor its predecessor has for output
   (the graph input for the first layer), and the output of a Convolution,
   Pooling or Linear layer is a tensor made in that call, other than the
   caller's tensors and than the output of every other such layer; and an
   evaluate call changes the data of the tensor it was given only if the
   first layer is an Activation, Dropout or SoftMax layer. *)
C17_InPlaceOutputIdentity ==
  /\ (call.op = "configure" /\ call.status = "returned") =>
       \A i \in 1..Len(layers) :
         IF layers[i].kind \in InPlace
           THEN lstate[i].output = IF i = 1 THEN call.arg ELSE lstate[i - 1].output
           ELSE /\ lstate[i].output > lcalls[1].pre.ntensors
                /\ lstate[i].output \notin Inputs
                /\ \A j \in 1..Len(layers) :
                     (j # i /\ layers[j].kind \in Allocating)
                       => lstate[j].output # lstate[i].output
  /\ (call.op = "evaluate" /\ ~call.ub /\ tensors[call.arg].data # call.xin)
       => layers # <<>> /\ layers[1].kind \in InPlace

(* A Model.configure returned, not the first, on a model whose first layer
   makes its output and whose second works in place on it. *)
C17_Witness ==
  /\ call.op = "configure" /\ call.status = "returned" /\ Len(layers) >= 2
  /\ layers[1].kind \in Allocating /\ layers[2].kind \in InPlace
  /\ lstate[2].output = lstate[1].output
  /\ lcalls[1].ncfg >= 2

(* C18: fprop applies the function the layer's selector names.  After a
   configure and an evaluate of the same tensor: a ReLU Activation returns
   max(x, 0); a TanH Activation returns values of x's sign and of magnitude
   below 1; a LOG SoftMax returns values that are at most 0, and 0 where
   there is one channel; a FAST SoftMax returns values from 0 to 1, and 1
   where there is one channel. *)
C18_SelectorAuthoritative ==
  (/\ call.op = "evaluate" /\ call.status = "returned" /\ ~call.ub
   /\ hist.cfg = "ok" /\ call.arg = minput /\ Len(layers) = 1
   /\ layers[1].kind \in {"Activation", "SoftMax"})
    => LET sel == layers[1].sel
           x == call.xin
           y == call.y
           channels == Shape(call.arg)[2]
       IN /\ Len(y) = Len(x)
          /\ \A j \in 1..Len(x) :
               CASE sel = "ReLU" -> y[j] = ReLU(x[j])
                 [] sel = "TanH" -> /\ (x[j] < 0 => y[j] < 0) /\ (x[j] > 0 => y[j] > 0)
                                    /\ (x[j] = 0 => y[j] = 0)
                                    /\ y[j] < One /\ y[j] > -One
                 [] sel = "LOG" -> y[j] <= 0 /\ (channels = 1 => y[j] = 0)
                 [] sel = "FAST" -> /\ y[j] >= 0 /\ y[j] <= One
                                    /\ (channels = 1 => y[j] = One)

(* The input layer i's last configure call was given breaks the layer's
   shape precondition. *)
PreconditionBroken(i) ==
  LET L == layers[i]
      shape == Shape(lcalls[i].cin)
  IN CASE L.kind = "Convolution" -> shape[2] # L.W.shape[2]
       [] L.kind = "Pooling" -> shape[4] < L.kW \/ shape[3] < L.kH
       [] L.kind = "Linear" -> Size(shape) # L.W.shape[2]
       [] OTHER -> FALSE

(* C19: a configure of a Convolution, Pooling or Linear layer given an input
   that breaks its shape precondition fails, and leaves everything as the
   call found it: the layer's attributes, every other layer's, the tensors,
   the descriptors, none of them destroyed, and the allocations. *)
C19_PreconditionFailureMutatesNothing ==
  \A i \in 1..Len(layers) :
    (lcalls[i].cin > 0 /\ PreconditionBroken(i))
      => /\ ~lcalls[i].cok
         /\ (hist.cfg = "failed" /\ FailedAt = i)
              => /\ lstate = lcalls[i].pre.ls
                 /\ Len(tensors) = lcalls[i].pre.ntensors
                 /\ Len(descs) = lcalls[i].pre.ndescs
                 /\ Destroyed(descs) = lcalls[i].pre.ndestroyed
                 /\ Len(wsbufs) = lcalls[i].pre.nallocs
                 /\ Freed(wsbufs) = lcalls[i].pre.nfreed

(* A Pooling layer that was configured, and holds descriptors, was configured
   again with an input smaller than its kernel, and that call failed. *)
C19_Witness ==
  \E i \in 1..Len(layers) :
    /\ layers[i].kind = "Pooling" /\ lcalls[i].ncfg >= 1
    /\ hist.cfg = "failed" /\ FailedAt = i /\ PreconditionBroken(i)
    /\ lstate[i].pool_desc > 0 /\ lstate[i].output > 0

====
